---- MODULE Spec2Model ----
(***************************************************************************)
(* PadelBot (src/bot.py): the alert subsystem.  A periodic job,            *)
(* check_alerts, loads the favorites table, reads the tournaments through  *)
(* the in-memory cache, requests the matches of every live or finished     *)
(* tournament and, for every follower of a player of a live or recently    *)
(* finished match, asks the notified ledger, sends a Telegram message and  *)
(* records the triple (user_id, match_id, status) in the ledger.           *)
(*                                                                         *)
(* Each await of check_alerts is one action of a worker; everything the    *)
(* coroutine computes between two awaits belongs to the action of the      *)
(* await before it.                                                        *)
(***************************************************************************)
EXTENDS Integers, Sequences, FiniteSets, Bags, TLC

(***************************************************************************)
(* Bounds of the model                                                     *)
(***************************************************************************)
\* days the clock runs for
MaxDays == 1
\* number of mark_notified calls that may fail before their INSERT ran
MaxMarkFails == 1
\* rows the favorites table may hold
MaxFavs == 2
\* sets in the score list of a match
MaxSets == 2
\* pages of GET /tournaments
MaxPages == 3
\* whitespace-delimited tokens of a player query
MaxTokens == 3
\* players in one answer of GET /players
MaxFound == 2

(***************************************************************************)
(* Program constants                                                       *)
(***************************************************************************)
\* CACHE_DURATION = timedelta(minutes=60)
CACHE_DURATION == 60
\* CACHE_DURATION_MATCHES = timedelta(minutes=2)
CACHE_DURATION_MATCHES == 2
\* (datetime.now().date() - dt).days > 1
STALE_DAYS == 1
\* length of a calendar day in minutes, the unit of the clock
MinutesPerDay == 1440

(***************************************************************************)
(* The world the bot runs in                                               *)
(***************************************************************************)
Workers == {1, 2}
\* the interactive handlers that are under way at the same time
Callers == {1, 2}
Users == {1, 2}
TournamentIds == {1, 2}
MatchIds == {1, 2}
\* Python's None, and a value that is not None
None == <<>>
Some(x) == <<x>>
Get(o) == o[1]

\* the amounts of time that pass between two steps
ClockSteps == {1440}
\* the minutes at which the handlers are looked at: an entry cached at
\* minute 0 or 1 is seen at the ages 1 and 2, 60 and 61
Instants == {0, 1, 2, 61}

\* names the upstream API reports for the player ids
PlayerName(p) == CASE p = 1 -> "Ana Ruiz" [] p = 2 -> "Bea Gil" [] OTHER -> "Carla Sanz"
Player(p) == [id |-> p, name |-> PlayerName(p)]
\* the (user, player) pairs of the follow buttons that are pressed
FollowPairs == {<<1, 1>>, <<1, 2>>, <<2, 1>>}

\* match 1 belongs to tournament 2, match 2 to tournament 1
TournamentOf(m) == 3 - m
\* the players object of a match: match 1 is Ana Ruiz against Bea Gil,
\* match 2 is Bea Gil against Carla Sanz
PlayersOf(m) ==
    IF m = 1 THEN [team_1 |-> <<Player(1)>>, team_2 |-> <<Player(2)>>]
             ELSE [team_1 |-> <<Player(2)>>, team_2 |-> <<Player(3)>>]

\* tournament 1 has finished and still reports its match 2 as live;
\* tournament 2 is about to start and its match 1 goes through the statuses
ChangingTournaments == {2}
ChangingMatches == {1}

TournamentStatus == {"upcoming", "live", "finished"}
MatchStatus == {"scheduled", "live", "finished"}
NotifyStatus == {"live", "finished"}

\* played_at as the API reports it: JSON null, a "%Y-%m-%d" date string, or
\* a string in another format (a timestamp with a time of day)
NoDate == [kind |-> "null", day |-> 0]
DateString(d) == [kind |-> "date", day |-> d]
OtherString == [kind |-> "text", day |-> 0]

Triples == Users \X MatchIds \X NotifyStatus

\* the keys of the caches of the cached fetches: the tournament list, the
\* matches of one tournament
TournamentsKey == [fn |-> "tournaments", id |-> 0]
MatchesKey(t) == [fn |-> "matches", id |-> t]
Keys == {TournamentsKey} \cup {MatchesKey(t) : t \in TournamentIds}

VARIABLES
    clock,                  \* datetime.now(), in minutes
    favorites,              \* table favorites: rows (user_id, player_id, player_name)
    notified,               \* table notified: a bag of rows <<user_id, match_id, status>>
    tstatus,                \* upstream: status of every tournament
    mstate,                 \* upstream: status and played_at of every match
    TOURNAMENTS_CACHE,      \* None or the cached tournament list
    TOURNAMENTS_CACHE_TIME, \* None or the clock value of the last refresh
    pc,                     \* per worker: the await check_alerts is suspended at
    favs,                   \* per worker: the local list  favorites
    tlist,                  \* per worker: live_or_finished, from the current tournament on
    work,                   \* per worker: (favorite, match) pairs left in the current tournament
    tick,                   \* per worker: what the current (or last) tick did
    prev,                   \* per worker: what the tick before it left behind
    delivered,              \* per triple: number of successful send_message calls
    markFails,              \* per triple: number of mark_notified calls that failed before the INSERT
    LIVE_MATCHES_CACHE,     \* per tournament id: None or the entry (matches, time)
    call,                   \* per caller: the cached fetch it is in, or has returned from
    shown,                  \* None or the match last rendered, with its score and round name
    pages,                  \* None or the fetch_all_tournaments call under way, or over
    search,                 \* None or the player search of capture_player_name under way, or over
    reply,                  \* None or how the last handler ended
    unfollowed              \* the (user_id, player_id) pairs whose removal was confirmed to the user

vars == <<clock, favorites, notified, tstatus, mstate, TOURNAMENTS_CACHE,
          TOURNAMENTS_CACHE_TIME, pc, favs, tlist, work, tick, prev,
          delivered, markFails, LIVE_MATCHES_CACHE, call,
          shown, pages, search, reply, unfollowed>>

envVars == <<clock, tstatus, mstate>>
cacheVars == <<TOURNAMENTS_CACHE, TOURNAMENTS_CACHE_TIME>>
histVars == <<delivered, markFails>>
\* what the handlers of the menu leave behind
menuVars == <<shown, pages, search, reply, unfollowed>>
\* what only the interactive handlers touch
handlerVars == <<LIVE_MATCHES_CACHE, call, menuVars>>

(***************************************************************************)
(* Sequences                                                               *)
(***************************************************************************)
Range(s) == {s[i] : i \in DOMAIN s}

RECURSIVE Flatten(_)
Flatten(ss) == IF ss = <<>> THEN <<>> ELSE Head(ss) \o Flatten(Tail(ss))

\* the orders in which a SELECT without ORDER BY may return the rows
Orderings(S) ==
    {s \in [1..Cardinality(S) -> S] : \A i, j \in DOMAIN s : i # j => s[i] # s[j]}

(***************************************************************************)
(* Upstream API                                                            *)
(***************************************************************************)
Tournament(t) == [id |-> t, status |-> tstatus[t]]

\* GET /tournaments is paginated through links.next, one tournament a page
NumPages == Cardinality(TournamentIds)
Page(i) == <<Tournament(i)>>

Match(m) == [id |-> m, status |-> mstate[m].status,
             played_at |-> mstate[m].played_at, players |-> PlayersOf(m)]

\* the data array of GET /tournaments/{t}/matches
MatchesOf(t) == IF t = 1 THEN <<Match(2)>> ELSE <<Match(1)>>

(***************************************************************************)
(* Ledger store                                                            *)
(***************************************************************************)
\* a lookup that never finds the row
was_notified_never(tbl, user_id, match_id, status) == FALSE

\* SELECT 1 FROM notified WHERE user_id=$1 AND match_id=$2 AND status=$3
was_notified(tbl, user_id, match_id, status) ==
    BagIn(<<user_id, match_id, status>>, tbl)

\* an INSERT that is never committed
mark_notified_lost(tbl, user_id, match_id, status) == tbl

\* a plain INSERT that ignores the primary key
mark_notified_no_conflict(tbl, user_id, match_id, status) ==
    tbl (+) SetToBag({<<user_id, match_id, status>>})

\* a write that replaces the rows of the table by the new row
mark_notified_replace(tbl, user_id, match_id, status) ==
    SetToBag({<<user_id, match_id, status>>})

\* INSERT INTO notified ... ON CONFLICT DO NOTHING
mark_notified(tbl, user_id, match_id, status) ==
    IF BagIn(<<user_id, match_id, status>>, tbl)
    THEN tbl
    ELSE tbl (+) SetToBag({<<user_id, match_id, status>>})

RECURSIVE Sum(_, _)
Sum(f, S) == IF S = {} THEN 0 ELSE LET x == CHOOSE x \in S : TRUE IN f[x] + Sum(f, S \ {x})

MarkFailsTotal == Sum(markFails, Triples)

Rows(tbl, t) == IF BagIn(t, tbl) THEN CopiesIn(t, tbl) ELSE 0

(***************************************************************************)
(* Tournaments cache                                                       *)
(***************************************************************************)
\* fetch_all_tournaments when the request of page k+1 fails (k = NumPages:
\* no request fails): the loop breaks and the pages read so far are returned
fetch_all_tournaments(k) == Flatten([i \in 1..k |-> Page(i)])

\* the condition under which fetch_all_tournaments_cached refreshes
TournamentsExpired ==
    \/ TOURNAMENTS_CACHE = None
    \/ TOURNAMENTS_CACHE_TIME = None
    \/ (clock - Get(TOURNAMENTS_CACHE_TIME)) > CACHE_DURATION

\* fetch_all_tournaments_cached after the cache was found expired: what it
\* returns.  raises: fetch_all_tournaments raised outside its own try (a
\* response that is not a JSON object with links)
tournaments_refreshed(raises, k) ==
    IF raises
    THEN IF TOURNAMENTS_CACHE # None THEN Get(TOURNAMENTS_CACHE) ELSE <<>>
    ELSE fetch_all_tournaments(k)

\* TournamentsStore without  TOURNAMENTS_CACHE_TIME = now
TournamentsStore_no_time(now, raises, k) ==
    IF raises
    THEN UNCHANGED cacheVars
    ELSE /\ TOURNAMENTS_CACHE' = Some(fetch_all_tournaments(k))
         /\ UNCHANGED TOURNAMENTS_CACHE_TIME

\* ... and what it leaves in the two globals; now was read before the await
TournamentsStore(now, raises, k) ==
    IF raises
    THEN UNCHANGED cacheVars
    ELSE /\ TOURNAMENTS_CACHE' = Some(fetch_all_tournaments(k))
         /\ TOURNAMENTS_CACHE_TIME' = Some(now)

\* fetch_all_tournaments_cached run in one piece: what it returns
fetch_all_tournaments_cached(raises, k) ==
    IF TournamentsExpired
    THEN tournaments_refreshed(raises, k)
    ELSE Get(TOURNAMENTS_CACHE)

\* fetch_all_tournaments_cached run in one piece: what it leaves in the two
\* globals
TournamentsCacheUpdate(raises, k) ==
    IF TournamentsExpired
    THEN TournamentsStore(clock, raises, k)
    ELSE UNCHANGED cacheVars

(***************************************************************************)
(* check_alerts: the pure part                                             *)
(***************************************************************************)
today == clock \div MinutesPerDay

\* datetime.strptime(played_at, "%Y-%m-%d").date(): the day, or a ValueError
strptime(played_at) == [ok |-> played_at.kind = "date", day |-> played_at.day]

\* the skip without the comparison of the dates
SkippedAsOld_no_age(m) ==
    /\ m.status = "finished"
    /\ m.played_at.kind # "null"
    /\ ~strptime(m.played_at).ok

\* the match is skipped:  if status == "finished" and played_at: ... continue
SkippedAsOld(m) ==
    /\ m.status = "finished"
    /\ m.played_at.kind # "null"
    /\ \/ ~strptime(m.played_at).ok
       \/ (today - strptime(m.played_at).day) > STALE_DAYS

\* the names of team_1 only
all_players_team_1(m) == {m.players.team_1[i].name : i \in DOMAIN m.players.team_1}

\* [p["name"] for team in players.values() for p in team]
all_players(m) ==
    {m.players.team_1[i].name : i \in DOMAIN m.players.team_1}
        \cup {m.players.team_2[i].name : i \in DOMAIN m.players.team_2}

\* the matches of a response the loop does not skip
Notifiable(m) == m.status \in NotifyStatus /\ ~SkippedAsOld(m)

\* the favorites the inner loop reaches was_notified for, in loop order
FollowersOf(m, favseq) ==
    LET hit(f) == f.player_name \in all_players(m)
        item(f) == [user_id |-> f.user_id, match_id |-> m.id, status |-> m.status]
        sel == SelectSeq(favseq, hit)
    IN [i \in DOMAIN sel |-> item(sel[i])]

\* for m in matches: ... for fav in favorites: if pname in all_players
WorkItems(matches, favseq) ==
    LET sel == SelectSeq(matches, Notifiable)
    IN Flatten([i \in DOMAIN sel |-> FollowersOf(sel[i], favseq)])

\* [t for t in tournaments if t["status"] in ("live", "finished")]
live_or_finished(tournaments) ==
    LET keep(t) == t.status \in {"live", "finished"}
    IN SelectSeq(tournaments, keep)

Triple(item) == <<item.user_id, item.match_id, item.status>>

(***************************************************************************)
(* check_alerts: one action per await                                      *)
(***************************************************************************)
\* status: "idle" between two runs of the job, "running", and at the end of
\*   a run "returned" (check_alerts returned), "raised" (its except clause
\*   caught an exception) or "escaped" (an exception left check_alerts);
\* cause: the call that failed last ("tournaments": a failure that
\*   fetch_all_tournaments or fetch_all_tournaments_cached caught);
\* tournaments: what fetch_all_tournaments_cached returned to the run;
\* sent: the triples of the successful send_message calls of the run, in
\*   order;  inserted: the rows the run added to the ledger
NoTick == [status |-> "idle", cause |-> "", tournaments |-> <<>>, sent |-> <<>>,
           inserted |-> {}]
NewTick == [NoTick EXCEPT !.status = "running"]

\* the run is over: the remaining local state stays as the run left it
\* until the job returns to the scheduler
Ends(w, status, cause) ==
    /\ pc' = [pc EXCEPT ![w] = "done"]
    /\ tick' = [tick EXCEPT ![w].status = status, ![w].cause = cause]
    /\ UNCHANGED <<favs, tlist, work>>

\* the loops go on after the favorite at the head of work[w]
Continue(w) ==
    IF Tail(work[w]) # <<>>
    THEN /\ pc' = [pc EXCEPT ![w] = "was_notified"]
         /\ work' = [work EXCEPT ![w] = Tail(work[w])]
         /\ UNCHANGED tlist
    ELSE /\ pc' = [pc EXCEPT ![w] = IF Tail(tlist[w]) # <<>> THEN "matches" ELSE "done"]
         /\ work' = [work EXCEPT ![w] = <<>>]
         /\ tlist' = [tlist EXCEPT ![w] = Tail(tlist[w])]

LastItem(w) == Tail(work[w]) = <<>> /\ Tail(tlist[w]) = <<>>

\* LoadFavorites without  if not favorites: return
LoadFavorites_goes_on(w, ok) ==
    /\ pc[w] = "idle"
    /\ IF ~ok
       THEN /\ pc' = [pc EXCEPT ![w] = "done"]
            /\ tick' = [tick EXCEPT ![w] = [NewTick EXCEPT !.status = "escaped",
                                                           !.cause = "favorites"]]
            /\ UNCHANGED favs
       ELSE \E order \in Orderings(favorites) :
            /\ favs' = [favs EXCEPT ![w] = order]
            /\ pc' = [pc EXCEPT ![w] = "tournaments"]
            /\ tick' = [tick EXCEPT ![w] = NewTick]
    /\ UNCHANGED <<envVars, cacheVars, handlerVars, histVars, favorites, notified, tlist, work, prev>>

\* conn.fetch("SELECT DISTINCT user_id, player_id, player_name FROM favorites")
\* and  if not favorites: return.  The fetch is outside the try of check_alerts.
LoadFavorites(w, ok) ==
    /\ pc[w] = "idle"
    /\ IF ~ok
       THEN /\ pc' = [pc EXCEPT ![w] = "done"]
            /\ tick' = [tick EXCEPT ![w] = [NewTick EXCEPT !.status = "escaped",
                                                           !.cause = "favorites"]]
            /\ UNCHANGED favs
       ELSE \E order \in Orderings(favorites) :
            /\ favs' = [favs EXCEPT ![w] = order]
            /\ IF order = <<>>
               THEN /\ pc' = [pc EXCEPT ![w] = "done"]
                    /\ tick' = [tick EXCEPT ![w] = [NewTick EXCEPT !.status = "returned"]]
               ELSE /\ pc' = [pc EXCEPT ![w] = "tournaments"]
                    /\ tick' = [tick EXCEPT ![w] = NewTick]
    /\ UNCHANGED <<envVars, cacheVars, handlerVars, histVars, favorites, notified, tlist, work, prev>>

\* tournaments = await fetch_all_tournaments_cached() or []
FetchTournaments(w, raises, k) ==
    /\ pc[w] = "tournaments"
    \* while the entry is fresh nothing is requested and nothing can fail
    /\ ~TournamentsExpired => (~raises /\ k = NumPages)
    /\ TournamentsCacheUpdate(raises, k)
    /\ LET tournaments == fetch_all_tournaments_cached(raises, k)
           lof == live_or_finished(tournaments)
           failed == TournamentsExpired /\ (raises \/ k < NumPages)
       IN /\ tlist' = [tlist EXCEPT ![w] = lof]
          /\ pc' = [pc EXCEPT ![w] = IF lof = <<>> THEN "done" ELSE "matches"]
          /\ tick' = [tick EXCEPT ![w].tournaments = tournaments,
                                  ![w].cause = IF failed THEN "tournaments" ELSE @,
                                  ![w].status = IF lof = <<>> THEN "returned" ELSE @]
    /\ UNCHANGED <<envVars, histVars, handlerVars, favorites, notified, favs, work, prev>>

\* r = await client.get(".../tournaments/{t['id']}/matches"); r.raise_for_status();
\* matches = r.json().get("data", [])
FetchMatches(w, ok) ==
    /\ pc[w] = "matches"
    /\ LET items == WorkItems(MatchesOf(Head(tlist[w]).id), favs[w])
       IN IF ~ok
          THEN Ends(w, "raised", "matches")
          ELSE IF items # <<>>
          THEN /\ pc' = [pc EXCEPT ![w] = "was_notified"]
               /\ work' = [work EXCEPT ![w] = items]
               /\ UNCHANGED <<favs, tlist, tick>>
          ELSE /\ pc' = [pc EXCEPT ![w] = IF Tail(tlist[w]) # <<>> THEN "matches" ELSE "done"]
               /\ tick' = [tick EXCEPT ![w].status =
                              IF Tail(tlist[w]) # <<>> THEN @ ELSE "returned"]
               /\ tlist' = [tlist EXCEPT ![w] = Tail(tlist[w])]
               /\ UNCHANGED <<favs, work>>
    /\ UNCHANGED <<envVars, cacheVars, handlerVars, histVars, favorites, notified, prev>>

\* already_notified = await was_notified(user_id, m["id"], status)
WasNotified(w, ok) ==
    /\ pc[w] = "was_notified"
    /\ LET it == Head(work[w])
       IN IF ~ok
          THEN Ends(w, "raised", "was_notified")
          ELSE IF was_notified(notified, it.user_id, it.match_id, it.status)
          THEN /\ Continue(w)
               /\ tick' = [tick EXCEPT ![w].status =
                              IF LastItem(w) THEN "returned" ELSE @]
               /\ UNCHANGED favs
          ELSE /\ pc' = [pc EXCEPT ![w] = "send_message"]
               /\ UNCHANGED <<favs, tlist, work, tick>>
    /\ UNCHANGED <<envVars, cacheVars, handlerVars, histVars, favorites, notified, prev>>

\* a send_message whose exception is swallowed: mark_notified runs anyway
SendMessage_swallow(w, ok) ==
    /\ pc[w] = "send_message"
    /\ pc' = [pc EXCEPT ![w] = "mark_notified"]
    /\ delivered' = [delivered EXCEPT ![Triple(Head(work[w]))] = IF ok THEN @ + 1 ELSE @]
    /\ tick' = [tick EXCEPT ![w].sent = IF ok THEN Append(@, Triple(Head(work[w]))) ELSE @]
    /\ UNCHANGED <<favs, tlist, work>>
    /\ UNCHANGED <<envVars, cacheVars, handlerVars, markFails, favorites, notified, prev>>

\* await context.bot.send_message(chat_id=user_id, text=message)
SendMessage(w, ok) ==
    /\ pc[w] = "send_message"
    /\ LET it == Head(work[w])
       IN IF ~ok
          THEN /\ Ends(w, "raised", "send_message")
               /\ UNCHANGED delivered
          ELSE /\ pc' = [pc EXCEPT ![w] = "mark_notified"]
               /\ delivered' = [delivered EXCEPT ![Triple(it)] = @ + 1]
               /\ tick' = [tick EXCEPT ![w].sent = Append(@, Triple(it))]
               /\ UNCHANGED <<favs, tlist, work>>
    /\ UNCHANGED <<envVars, cacheVars, handlerVars, markFails, favorites, notified, prev>>

\* await mark_notified(user_id, m["id"], status).  outcome "ok": connect, INSERT
\* and close succeed; "before": connect or INSERT raises; "after": the INSERT
\* ran and conn.close() raises
MarkNotified(w, outcome) ==
    /\ pc[w] = "mark_notified"
    /\ LET it == Head(work[w])
           tbl == mark_notified(notified, it.user_id, it.match_id, it.status)
           new == IF tbl # notified THEN {Triple(it)} ELSE {}
       IN CASE outcome = "ok" ->
                 /\ notified' = tbl
                 /\ Continue(w)
                 /\ tick' = [tick EXCEPT ![w].status = IF LastItem(w) THEN "returned" ELSE @,
                                         ![w].inserted = @ \cup new]
                 /\ UNCHANGED <<favs, markFails>>
            [] outcome = "before" ->
                 /\ MarkFailsTotal < MaxMarkFails
                 /\ markFails' = [markFails EXCEPT ![Triple(it)] = @ + 1]
                 /\ Ends(w, "raised", "mark_notified")
                 /\ UNCHANGED notified
            [] outcome = "after" ->
                 /\ notified' = tbl
                 /\ pc' = [pc EXCEPT ![w] = "done"]
                 /\ tick' = [tick EXCEPT ![w].status = "raised",
                                         ![w].cause = "mark_notified",
                                         ![w].inserted = @ \cup new]
                 /\ UNCHANGED <<favs, tlist, work, markFails>>
    /\ UNCHANGED <<envVars, cacheVars, handlerVars, delivered, favorites, prev>>

\* the job is over; the job queue runs it again after the interval.
\* prev keeps of the run: ok, it returned and no call of it failed;
\* sendFailed, the triple whose send_message raised (kept when remember)
Finish(w, remember) ==
    /\ pc[w] = "done"
    /\ pc' = [pc EXCEPT ![w] = "idle"]
    /\ prev' = [prev EXCEPT ![w] =
                  [ok |-> tick[w].status = "returned" /\ tick[w].cause = "",
                   sendFailed |-> IF remember /\ tick[w].cause = "send_message"
                                  THEN {Triple(Head(work[w]))} ELSE {}]]
    /\ tick' = [tick EXCEPT ![w] = NoTick]
    /\ favs' = [favs EXCEPT ![w] = <<>>]
    /\ tlist' = [tlist EXCEPT ![w] = <<>>]
    /\ work' = [work EXCEPT ![w] = <<>>]
    /\ UNCHANGED <<envVars, cacheVars, handlerVars, histVars, favorites, notified>>

(***************************************************************************)
(* The environment: users, the clock and the upstream data                 *)
(***************************************************************************)
\* the next run no longer follows its predecessor immediately
NoPrev == [ok |-> FALSE, sendFailed |-> {}]
Changed == [w \in Workers |-> NoPrev]

\* button_handler, command "follow": INSERT INTO favorites; a
\* UniqueViolationError is answered with "Ya sigues a ..."
Follow(u, p) ==
    /\ Cardinality(favorites) < MaxFavs
    /\ IF \E f \in favorites : f.user_id = u /\ f.player_id = p
       THEN UNCHANGED <<favorites, prev>>
       ELSE /\ favorites' = favorites \cup
                   {[user_id |-> u, player_id |-> p, player_name |-> PlayerName(p)]}
            /\ prev' = Changed
    /\ UNCHANGED <<envVars, cacheVars, handlerVars, histVars, notified, pc, favs, tlist, work, tick>>

\* time passes
Advance(d) ==
    /\ clock + d <= MaxDays * MinutesPerDay
    /\ clock' = clock + d
    /\ prev' = Changed
    /\ UNCHANGED <<tstatus, mstate, cacheVars, handlerVars, histVars, favorites, notified,
                   pc, favs, tlist, work, tick>>

\* a tournament starts
TournamentProgress(t) ==
    /\ tstatus[t] = "upcoming"
    /\ tstatus' = [tstatus EXCEPT ![t] = "live"]
    /\ prev' = Changed
    /\ UNCHANGED <<clock, mstate, cacheVars, handlerVars, histVars, favorites, notified,
                   pc, favs, tlist, work, tick>>

\* the played_at values the API reports for a finished match
PlayedAtValues == {NoDate, OtherString, DateString(-1)}

\* a match of a live tournament starts, or ends and gets its played_at
MatchProgress(m, played_at) ==
    /\ tstatus[TournamentOf(m)] = "live"
    /\ mstate[m].status # "finished"
    /\ mstate' = [mstate EXCEPT ![m] =
                     IF @.status = "scheduled"
                     THEN [status |-> "live", played_at |-> NoDate]
                     ELSE [status |-> "finished", played_at |-> played_at]]
    /\ prev' = Changed
    /\ UNCHANGED <<clock, tstatus, cacheVars, handlerVars, histVars, favorites, notified,
                   pc, favs, tlist, work, tick>>

(***************************************************************************)
(* The cached fetches of the interactive handlers.  A call reads           *)
(* datetime.now() and the cache, and unless it returns the cached value it *)
(* is suspended at the upstream request; the entry it stores afterwards    *)
(* carries the time read before the request.                               *)
(***************************************************************************)
\* call[c]: what caller c is doing.
\*   pc        "idle" before the first call, "awaiting" at the upstream
\*             request, "returned" after the return
\*   key       the cache key of the call
\*   now       datetime.now() as the call read it
\*   prior     when the call began: the latest now of the calls on record
\*             that had returned from an upstream call for the key
\*   cached    the call returned the cached value
\*   age       now - fetched_at of the cached value it returned
\*   found     the cache held an expired value for the key when the call began
\*   upstream  number of upstream calls the call issued
\*   failed    the upstream call failed
\*   before    the value the cache held when the upstream call ended
\*   result    what the call returned
NoCall == [pc |-> "idle", key |-> TournamentsKey, now |-> 0, prior |-> None,
           cached |-> FALSE, age |-> 0, found |-> FALSE, upstream |-> 0,
           failed |-> FALSE, before |-> None, result |-> <<>>]

HandlersInit ==
    /\ LIVE_MATCHES_CACHE = [t \in TournamentIds |-> None]
    /\ call = [c \in Callers |-> NoCall]
    /\ shown = None /\ pages = None /\ search = None
    /\ reply = None /\ unfollowed = {}

tickVars == <<favorites, notified, pc, favs, tlist, work, tick, prev, histVars>>

\* the call starts: it is not inside another cached fetch
Starts(c) == call[c].pc \in {"idle", "returned"}

\* the call returns the cached value: no upstream call
ReturnsCached(c, key, fetched_at, value) ==
    call' = [call EXCEPT ![c] = [NoCall EXCEPT !.pc = "returned", !.key = key,
                                               !.now = clock, !.cached = TRUE,
                                               !.age = clock - fetched_at,
                                               !.result = value]]

\* the calls on record that have returned from an upstream call for the key
Refreshes(key) ==
    {call[d].now : d \in {e \in Callers : /\ call[e].pc = "returned"
                                          /\ call[e].key = key
                                          /\ call[e].upstream > 0}}

Latest(S) == CHOOSE x \in S : \A y \in S : y <= x

\* the call is suspended at its upstream request
Awaits(c, key, found) ==
    call' = [call EXCEPT ![c] =
                [NoCall EXCEPT !.pc = "awaiting", !.key = key, !.now = clock,
                               !.found = found,
                               !.prior = IF Refreshes(key) = {} THEN None
                                         ELSE Some(Latest(Refreshes(key)))]]

\* the upstream request of the call has ended and the call returns
Returns(c, failed, before, value) ==
    call' = [call EXCEPT ![c].pc = "returned", ![c].upstream = 1,
                         ![c].failed = failed, ![c].before = before,
                         ![c].result = value]

\* fetch_live_matches_cached(tournament_id), up to the request
MatchesFresh(t, now) ==
    /\ LIVE_MATCHES_CACHE[t] # None
    /\ (now - Get(LIVE_MATCHES_CACHE[t]).time) < CACHE_DURATION_MATCHES

BeginMatches(c, t) ==
    /\ Starts(c)
    /\ IF MatchesFresh(t, clock)
       THEN ReturnsCached(c, MatchesKey(t), Get(LIVE_MATCHES_CACHE[t]).time,
                          Get(LIVE_MATCHES_CACHE[t]).data)
       ELSE Awaits(c, MatchesKey(t), LIVE_MATCHES_CACHE[t] # None)
    /\ UNCHANGED <<envVars, cacheVars, tickVars, menuVars, LIVE_MATCHES_CACHE>>

\* what fetch_live_matches_cached returns after the request: the matches,
\* or [] from its except clause
live_matches_refreshed(ok, t) == IF ok THEN MatchesOf(t) ELSE <<>>

\* fetch_live_matches_cached(tournament_id), from the answer on
CompleteMatches(c, ok) ==
    /\ call[c].pc = "awaiting" /\ call[c].key.fn = "matches"
    /\ LET t == call[c].key.id
           stored == LIVE_MATCHES_CACHE[t]
       IN /\ LIVE_MATCHES_CACHE' =
                 IF ok THEN [LIVE_MATCHES_CACHE EXCEPT ![t] =
                                Some([data |-> MatchesOf(t), time |-> call[c].now])]
                       ELSE LIVE_MATCHES_CACHE
          /\ Returns(c, ~ok, IF stored = None THEN None ELSE Some(Get(stored).data),
                     live_matches_refreshed(ok, t))
    /\ UNCHANGED <<envVars, cacheVars, tickVars, menuVars>>

\* fetch_all_tournaments_cached(), up to the request
BeginTournaments(c) ==
    /\ Starts(c)
    /\ IF TournamentsExpired
       THEN Awaits(c, TournamentsKey, TOURNAMENTS_CACHE # None)
       ELSE ReturnsCached(c, TournamentsKey, Get(TOURNAMENTS_CACHE_TIME),
                          Get(TOURNAMENTS_CACHE))
    /\ UNCHANGED <<envVars, cacheVars, tickVars, menuVars, LIVE_MATCHES_CACHE>>

\* fetch_all_tournaments_cached(), from the end of fetch_all_tournaments on
CompleteTournaments(c, raises, k) ==
    /\ call[c].pc = "awaiting" /\ call[c].key.fn = "tournaments"
    /\ TournamentsStore(call[c].now, raises, k)
    /\ Returns(c, raises \/ k < NumPages, TOURNAMENTS_CACHE,
               tournaments_refreshed(raises, k))
    /\ UNCHANGED <<envVars, tickVars, menuVars, LIVE_MATCHES_CACHE>>

\* time passes, also while a request is under way
Pass(minute) ==
    /\ minute \in Instants /\ minute > clock
    /\ clock' = minute
    /\ UNCHANGED <<tstatus, mstate, cacheVars, handlerVars, tickVars>>

(***************************************************************************)
(* The text of a match: format_match_score and the round name              *)
(***************************************************************************)
\* what no handler of the menu and no rendering touches
quietVars == <<envVars, cacheVars, tickVars, LIVE_MATCHES_CACHE, call>>

\* the games of a team in a set of the score list; None: the set has no
\* such key
GameCounts == {1, 4, 6}
ScoreSets == [team_1 : {None} \cup {Some(g) : g \in GameCounts},
              team_2 : {None} \cup {Some(g) : g \in GameCounts}]
\* the lists of at most n sets
ScoreLists(n) == UNION {[1..k -> ScoreSets] : k \in 0..n}
\* the member "score" of a match: missing, null or a list of sets
Scores ==
    {[kind |-> "absent", sets |-> <<>>], [kind |-> "null", sets |-> <<>>]}
        \cup {[kind |-> "list", sets |-> l] : l \in ScoreLists(MaxSets)}
\* the member "round" of a match: missing (None) or a number
Rounds == {None} \cup {Some(n) : n \in {1, 2, 3, 4, 8}}
\* the matches that are rendered
ShownMatches == [score : Scores, round : Rounds]

\* {s.get('team_1', '?')} inside an f-string
GamesText(games) == IF games = None THEN "?" ELSE ToString(Get(games))
\* f"{s.get('team_1', '?')}-{s.get('team_2', '?')}"
SetText(s) == GamesText(s.team_1) \o "-" \o GamesText(s.team_2)

\* sep.join(texts)
RECURSIVE join(_, _)
join(sep, texts) ==
    IF texts = <<>> THEN ""
    ELSE IF Tail(texts) = <<>> THEN Head(texts)
    ELSE Head(texts) \o sep \o join(sep, Tail(texts))

\* the placeholder of a match without result (the source puts a chart
\* emoji and a space before the words)
NoResult == "Sin resultado"

\* format_match_score with the sets joined last to first
format_match_score_reversed(match) ==
    LET score_list == IF match.score.kind = "list" THEN match.score.sets ELSE <<>>
        n == Len(score_list)
    IN IF score_list = <<>>
       THEN NoResult
       ELSE join(" | ", [i \in 1..n |-> SetText(score_list[n + 1 - i])])

\* score_list = match.get("score") or [];  " | ".join(...)
format_match_score(match) ==
    LET score_list == IF match.score.kind = "list" THEN match.score.sets ELSE <<>>
    IN IF score_list = <<>>
       THEN NoResult
       ELSE join(" | ", [i \in DOMAIN score_list |-> SetText(score_list[i])])

\* round_map = {1: "Final", 2: "Semifinal", 4: "Cuartos", 8: "Octavos"}
round_map == (1 :> "Final" @@ 2 :> "Semifinal" @@ 4 :> "Cuartos" @@ 8 :> "Octavos")

\* the round name with the default "Ronda ?" for every round off the map
round_name_no_number(match) ==
    LET key == IF match.round = None THEN 0 ELSE Get(match.round)
    IN IF key \in DOMAIN round_map THEN round_map[key] ELSE "Ronda " \o "?"

\* round_map.get(m.get("round", 0), f"Ronda {m.get('round', '?')}")
round_name(match) ==
    LET key == IF match.round = None THEN 0 ELSE Get(match.round)
    IN IF key \in DOMAIN round_map
       THEN round_map[key]
       ELSE "Ronda " \o GamesText(match.round)

\* check_alerts and get_last_results build the text of a match; one match
\* is looked at
Render(match) ==
    /\ shown = None
    /\ shown' = Some([match |-> match, score |-> format_match_score(match),
                      round_name |-> round_name(match)])
    /\ UNCHANGED <<quietVars, pages, search, reply, unfollowed>>

(***************************************************************************)
(* fetch_all_tournaments, request by request                               *)
(***************************************************************************)
\* the member "data" of page i: missing, null or a list of tournaments,
\* which are numbered by page and place
PageData(i) ==
    {[kind |-> "absent", items |-> <<>>], [kind |-> "null", items |-> <<>>],
     [kind |-> "list", items |-> <<>>], [kind |-> "list", items |-> <<10 * i + 1>>],
     [kind |-> "list", items |-> <<10 * i + 1, 10 * i + 2>>]}

\* the member "links" of a page that has a successor: an object whose next
\* is the URL of the successor
LinksTo(i) == [kind |-> "object", next |-> Some(i)]
\* the member "links" of the last page: an object whose next is null, an
\* object without next, no member at all, or null
LastLinks ==
    {[kind |-> "object", next |-> None], [kind |-> "object_without_next", next |-> None],
     [kind |-> "absent", next |-> None], [kind |-> "null", next |-> None]}

\* the chains of the pages i to n: page i links to page i + 1, page n to none
RECURSIVE ChainsFrom(_, _)
ChainsFrom(i, n) ==
    IF i = n
    THEN {<<[data |-> d, links |-> l]>> : d \in PageData(n), l \in LastLinks}
    ELSE {<<[data |-> d, links |-> LinksTo(i + 1)]>> \o rest :
             d \in PageData(i), rest \in ChainsFrom(i + 1, n)}

\* the chains of n pages
Chains(n) == ChainsFrom(1, n)

\* data.get("data", []) or []
page_items(page) == IF page.data.kind = "list" THEN page.data.items ELSE <<>>

\* data.get("links", {}).get("next"): the next URL, or None; on a links
\* member that is null the second get raises AttributeError
page_next(page) ==
    [raises |-> page.links.kind = "null",
     url |-> IF page.links.kind = "object" THEN page.links.next ELSE None]

\* tournaments = [];  url = f"{PADEL_API_URL}/tournaments"
StartPages(chain) ==
    /\ pages = None
    /\ pages' = Some([chain |-> chain, url |-> Some(1), tournaments |-> <<>>,
                      requested |-> <<>>, failed |-> FALSE, status |-> "running"])
    /\ UNCHANGED <<quietVars, shown, search, reply, unfollowed>>

\* one turn of  while url:  the request of the page, which may fail (break),
\* tournaments.extend(...), url = ...;  return tournaments  when url is None
RequestPage(ok) ==
    /\ pages # None /\ Get(pages).status = "running"
    /\ LET p == Get(pages)
           i == Get(p.url)
           page == p.chain[i]
           next == page_next(page)
       IN pages' = Some(
            IF ~ok
            THEN [p EXCEPT !.requested = Append(@, i), !.failed = TRUE,
                           !.status = "returned"]
            ELSE [p EXCEPT !.requested = Append(@, i),
                           !.tournaments = @ \o page_items(page),
                           !.url = next.url,
                           !.status = IF next.raises THEN "raised"
                                      ELSE IF next.url = None THEN "returned"
                                      ELSE "running"])
    /\ UNCHANGED <<quietVars, shown, search, reply, unfollowed>>

(***************************************************************************)
(* capture_player_name: the player search                                  *)
(***************************************************************************)
\* player_query.split(): the tokens of the text the user wrote
Tokens == {"ana", "ruiz"}
Queries == UNION {[1..n -> Tokens] : n \in 1..MaxTokens}

\* the player objects GET /players answers with; the API may list a player
\* under two spellings of the name
FoundPlayers == {[id |-> 1, name |-> "Ana Ruiz"], [id |-> 1, name |-> "A. Ruiz"],
                 [id |-> 2, name |-> "Bea Gil"]}
\* the answers of GET /players: a failure, or the array data
PlayerAnswers ==
    {[ok |-> FALSE, data |-> <<>>]}
        \cup {[ok |-> TRUE, data |-> l] :
                 l \in UNION {[1..n -> FoundPlayers] : n \in 0..MaxFound}}

\* parts[:1] + parts[-1:]
first_and_last(parts) == <<parts[1]>> \o <<parts[Len(parts)]>>

\* the loop passes the fragments it has tried:  if not frag or frag in tried: continue
RECURSIVE skip_tried(_, _)
skip_tried(frags, tried) ==
    IF frags = <<>> THEN <<>>
    ELSE IF Head(frags) \in tried THEN skip_tried(Tail(frags), tried)
    ELSE frags

\* for p in found: if p not in players: players.append(p)
RECURSIVE append_new(_, _)
append_new(players, found) ==
    IF found = <<>> THEN players
    ELSE append_new(IF Head(found) \in Range(players) THEN players
                    ELSE Append(players, Head(found)),
                    Tail(found))

\* the user has written the name of a player
StartSearch(query) ==
    /\ search = None
    /\ search' = Some([query |-> query, stage |-> "full", players |-> <<>>,
                       frags |-> <<>>, tried |-> {}, requested |-> <<>>,
                       full_ok |-> FALSE])
    /\ UNCHANGED <<quietVars, shown, pages, reply, unfollowed>>

\* the request with the whole text; a failure is answered and the handler
\* returns; without players the search goes on with the fragments
FullQuery(answer) ==
    /\ search # None /\ Get(search).stage = "full"
    /\ LET q == Get(search)
       IN search' = Some(
            IF ~answer.ok
            THEN [q EXCEPT !.stage = "failed"]
            ELSE [q EXCEPT !.full_ok = TRUE,
                           !.players = answer.data,
                           !.stage = IF answer.data # <<>> THEN "found" ELSE "fragments",
                           !.frags = IF answer.data # <<>> THEN <<>>
                                     ELSE first_and_last(q.query)])
    /\ UNCHANGED <<quietVars, shown, pages, reply, unfollowed>>

\* the request with the next fragment that was not tried;  except
\* Exception: continue;  if players: break
FragmentQuery(answer) ==
    /\ search # None /\ Get(search).stage = "fragments"
    /\ LET q == Get(search)
           frag == Head(q.frags)
           tried == q.tried \cup {frag}
           players == IF answer.ok THEN append_new(q.players, answer.data) ELSE q.players
           rest == skip_tried(Tail(q.frags), tried)
       IN search' = Some(
            [q EXCEPT !.tried = tried,
                      !.requested = Append(@, frag),
                      !.players = players,
                      !.frags = IF players # <<>> THEN <<>> ELSE rest,
                      !.stage = IF players # <<>> THEN "found"
                                ELSE IF rest = <<>> THEN "none"
                                ELSE "fragments"])
    /\ UNCHANGED <<quietVars, shown, pages, reply, unfollowed>>

(***************************************************************************)
(* The handlers of the menu; python-telegram-bot runs one handler at a     *)
(* time, so a handler is one step for the favorites table                  *)
(***************************************************************************)
\* what a request to the upstream API ends with: the answer asked for, an
\* error status with a JSON object as body, an error status with a body that
\* is not JSON, or no answer at all (httpx.RequestError)
Outcomes == {"ok", "status_json", "status_text", "network"}

\* INSERT INTO favorites with PRIMARY KEY(user_id, player_id), without the key
insert_favorite_no_key(table, user_id, player_id, player_name) ==
    [raises |-> FALSE,
     table |-> table \cup {[user_id |-> user_id, player_id |-> player_id,
                            player_name |-> player_name]}]

\* INSERT INTO favorites (user_id, player_id, player_name): the primary key
\* (user_id, player_id) makes it raise asyncpg.UniqueViolationError
insert_favorite(table, user_id, player_id, player_name) ==
    IF \E f \in table : f.user_id = user_id /\ f.player_id = player_id
    THEN [raises |-> TRUE, table |-> table]
    ELSE [raises |-> FALSE,
          table |-> table \cup {[user_id |-> user_id, player_id |-> player_id,
                                 player_name |-> player_name]}]

\* SELECT 1 FROM favorites WHERE user_id=$1 AND player_id=$2
existed(table, user_id, player_id) ==
    \E f \in table : f.user_id = user_id /\ f.player_id = player_id

\* what the handler that ran last did: kind is "following", "already",
\* "removed", "not_found", "candidates", "menu" or "text" for its answer,
\* "api_error" for the answer to an upstream failure it caught, "escaped"
\* when an exception left the handler; before is the favorites table the
\* handler found
Replied(handler, user_id, player_id, kind) ==
    Some([handler |-> handler, user_id |-> user_id, player_id |-> player_id,
          kind |-> kind, before |-> favorites])

\* the table stays within the bound
Room(user_id, player_id) ==
    existed(favorites, user_id, player_id) \/ Cardinality(favorites) < MaxFavs

menuQuiet == <<envVars, cacheVars, LIVE_MATCHES_CACHE, call, shown, pages, search,
               notified, pc, favs, tlist, work, tick, prev, histVars>>

\* seguir: the request and raise_for_status are in no try; the first
\* player of the answer is saved
seguir(u, outcome, players) ==
    /\ outcome = "ok" /\ players # <<>> => Room(u, players[1].id)
    /\ IF outcome # "ok"
       THEN reply' = Replied("seguir", u, 0, "escaped") /\ UNCHANGED favorites
       ELSE IF players = <<>>
       THEN reply' = Replied("seguir", u, 0, "not_found") /\ UNCHANGED favorites
       ELSE LET player == players[1]
                ins == insert_favorite(favorites, u, player.id, player.name)
            IN /\ favorites' = ins.table
               /\ reply' = Replied("seguir", u, player.id,
                                   IF ins.raises THEN "already" ELSE "following")
    /\ UNCHANGED <<menuQuiet, unfollowed>>

\* capture_player_name: a failure of the request with the whole text is
\* answered; players is the candidate list the search ends with
capture_player_name(u, outcome, players) ==
    /\ outcome = "ok" /\ Len(players) = 1 => Room(u, players[1].id)
    /\ IF outcome # "ok"
       THEN reply' = Replied("capture_player_name", u, 0, "api_error")
            /\ UNCHANGED favorites
       ELSE IF players = <<>>
       THEN reply' = Replied("capture_player_name", u, 0, "not_found")
            /\ UNCHANGED favorites
       ELSE IF Len(players) = 1
       THEN LET p == players[1]
            IN IF existed(favorites, u, p.id)
               THEN reply' = Replied("capture_player_name", u, p.id, "already")
                    /\ UNCHANGED favorites
               ELSE LET ins == insert_favorite(favorites, u, p.id, p.name)
                    IN /\ favorites' = ins.table
                       /\ reply' = Replied("capture_player_name", u, p.id,
                                           IF ins.raises THEN "db_error" ELSE "following")
       ELSE reply' = Replied("capture_player_name", u, 0, "candidates")
            /\ UNCHANGED favorites
    /\ UNCHANGED <<menuQuiet, unfollowed>>

\* button_handler, "choose": no try and no raise_for_status; the body of an
\* error status is read as if it were the answer
choose(u, outcome) ==
    /\ reply' = Replied("choose", u, 0,
                        IF outcome \in {"network", "status_text"} THEN "escaped" ELSE "menu")
    /\ UNCHANGED <<menuQuiet, favorites, unfollowed>>

\* button_handler, "follow": no try and no raise_for_status; a JSON body
\* without name gives the name "Desconocido"
follow(u, p, outcome) ==
    /\ outcome \in {"ok", "status_json"} => Room(u, p)
    /\ IF outcome \in {"network", "status_text"}
       THEN reply' = Replied("follow", u, p, "escaped") /\ UNCHANGED favorites
       ELSE LET player_name == IF outcome = "ok" THEN PlayerName(p) ELSE "Desconocido"
                ins == insert_favorite(favorites, u, p, player_name)
            IN /\ favorites' = ins.table
               /\ reply' = Replied("follow", u, p,
                                   IF ins.raises THEN "already" ELSE "following")
    /\ UNCHANGED <<menuQuiet, unfollowed>>

\* button_handler, "rankings": get_padel_rankings returns a text for every
\* exception
rankings(u, outcome) ==
    /\ reply' = Replied("rankings", u, 0, IF outcome = "ok" THEN "text" ELSE "api_error")
    /\ UNCHANGED <<menuQuiet, favorites, unfollowed>>

\* button_handler, "last" and "all": get_last_results returns a text for every
\* exception
last_results(u, outcome) ==
    /\ reply' = Replied("last_results", u, 0, IF outcome = "ok" THEN "text" ELSE "api_error")
    /\ UNCHANGED <<menuQuiet, favorites, unfollowed>>

\* button_handler, "unfollow": remove_favorite(...) is called without await,
\* the coroutine it returns never runs and no DELETE reaches the database;
\* busy: a run of the job was under way when the button was pressed
unfollow(u, p) ==
    /\ reply' = Replied("unfollow", u, p, "removed")
    /\ unfollowed' = unfollowed \cup {<<u, p, pc[1] # "idle">>}
    /\ UNCHANGED <<menuQuiet, favorites>>

(***************************************************************************)
(* Specification: one reconciliation worker                                *)
(***************************************************************************)
Init ==
    /\ clock = 0
    /\ favorites = {}
    /\ notified = EmptyBag
    /\ tstatus = [t \in TournamentIds |->
                     IF t \in ChangingTournaments THEN "upcoming" ELSE "finished"]
    /\ mstate = [m \in MatchIds |->
                    [status |-> IF m \in ChangingMatches THEN "scheduled" ELSE "live",
                     played_at |-> NoDate]]
    /\ TOURNAMENTS_CACHE = None
    /\ TOURNAMENTS_CACHE_TIME = None
    /\ pc = [w \in Workers |-> "idle"]
    /\ favs = [w \in Workers |-> <<>>]
    /\ tlist = [w \in Workers |-> <<>>]
    /\ work = [w \in Workers |-> <<>>]
    /\ tick = [w \in Workers |-> NoTick]
    /\ prev = [w \in Workers |-> NoPrev]
    /\ delivered = [t \in Triples |-> 0]
    /\ markFails = [t \in Triples |-> 0]
    /\ HandlersInit

Environment ==
    \/ \E f \in FollowPairs : Follow(f[1], f[2])
    \/ \E d \in ClockSteps : Advance(d)
    \/ \E t \in ChangingTournaments : TournamentProgress(t)
    \/ \E m \in ChangingMatches, p \in PlayedAtValues : MatchProgress(m, p)

Tick(w) ==
    \/ \E ok \in BOOLEAN : LoadFavorites(w, ok)
    \/ \E raises \in BOOLEAN, k \in 0..NumPages : FetchTournaments(w, raises, k)
    \/ \E ok \in BOOLEAN : FetchMatches(w, ok)
    \/ \E ok \in BOOLEAN : WasNotified(w, ok)
    \/ \E ok \in BOOLEAN : SendMessage(w, ok)
    \/ \E outcome \in {"ok", "before", "after"} : MarkNotified(w, outcome)
    \/ Finish(w, FALSE)

\* every read of a run is a single step and the steps of the environment
\* commute with one another, so the environment moves between the runs
Quiet == \A w \in Workers : pc[w] = "idle"

Next == (Quiet /\ Environment) \/ Tick(1)

Spec == Init /\ [][Next]_vars

(***************************************************************************)
(* Specification: the ledger under arbitrary mark_notified calls           *)
(***************************************************************************)
\* a run reaches  await mark_notified(user_id, m["id"], status)  for the last
\* favorite of the last tournament, with any arguments
Call(w, user_id, match_id, status) ==
    /\ pc[w] = "idle"
    /\ pc' = [pc EXCEPT ![w] = "mark_notified"]
    /\ work' = [work EXCEPT ![w] =
                  <<[user_id |-> user_id, match_id |-> match_id, status |-> status]>>]
    /\ tlist' = [tlist EXCEPT ![w] = <<Tournament(TournamentOf(match_id))>>]
    /\ tick' = [tick EXCEPT ![w] = NewTick]
    /\ UNCHANGED <<envVars, cacheVars, handlerVars, histVars, favorites, notified, favs, prev>>

NextLedger ==
    \/ \E t \in Triples : Call(1, t[1], t[2], t[3])
    \/ \E outcome \in {"ok", "before", "after"} : MarkNotified(1, outcome)
    \/ Finish(1, FALSE)

SpecLedger == Init /\ [][NextLedger]_vars

(***************************************************************************)
(* Specification: the job runs forever on a fixed upstream snapshot        *)
(***************************************************************************)
\* tournament 2 and both matches are live, somebody follows somebody
InitLive ==
    /\ clock = 0
    /\ favorites \in {F \in SUBSET {[user_id |-> f[1], player_id |-> f[2],
                                     player_name |-> PlayerName(f[2])] : f \in FollowPairs} :
                         F # {} /\ Cardinality(F) <= MaxFavs}
    /\ notified = EmptyBag
    /\ tstatus = [t \in TournamentIds |->
                     IF t \in ChangingTournaments THEN "live" ELSE "finished"]
    /\ mstate = [m \in MatchIds |-> [status |-> "live", played_at |-> NoDate]]
    /\ TOURNAMENTS_CACHE = None
    /\ TOURNAMENTS_CACHE_TIME = None
    /\ pc = [w \in Workers |-> "idle"]
    /\ favs = [w \in Workers |-> <<>>]
    /\ tlist = [w \in Workers |-> <<>>]
    /\ work = [w \in Workers |-> <<>>]
    /\ tick = [w \in Workers |-> NoTick]
    /\ prev = [w \in Workers |-> NoPrev]
    /\ delivered = [t \in Triples |-> 0]
    /\ markFails = [t \in Triples |-> 0]
    /\ HandlersInit

\* the database and the tournaments endpoint work; a matches request and a
\* send_message may fail
TickLive(w) ==
    \/ LoadFavorites(w, TRUE)
    \/ FetchTournaments(w, FALSE, NumPages)
    \/ \E ok \in BOOLEAN : FetchMatches(w, ok)
    \/ WasNotified(w, TRUE)
    \/ \E ok \in BOOLEAN : SendMessage(w, ok)
    \/ MarkNotified(w, "ok")
    \/ Finish(w, TRUE)

\* job_queue.run_repeating(check_alerts, interval=60, first=10): the job is
\* started again and again, and a started coroutine runs to its end
SpecLive == InitLive /\ [][TickLive(1)]_vars /\ WF_vars(TickLive(1))

(***************************************************************************)
(* Specification: the job on a fixed upstream snapshot, any call may fail  *)
(***************************************************************************)
SpecFail == InitLive /\ [][Tick(1)]_vars

(***************************************************************************)
(* Specification: the handlers call the cached fetches                     *)
(***************************************************************************)
\* tournament 1 has finished with its match 2, tournament 2 and its match 1
\* are live; nobody follows anybody and the job finds nothing to do
InitCache ==
    /\ clock = 0
    /\ favorites = {}
    /\ notified = EmptyBag
    /\ tstatus = [t \in TournamentIds |->
                     IF t \in ChangingTournaments THEN "live" ELSE "finished"]
    /\ mstate = [m \in MatchIds |->
                    [status |-> IF m \in ChangingMatches THEN "live" ELSE "finished",
                     played_at |-> NoDate]]
    /\ TOURNAMENTS_CACHE = None
    /\ TOURNAMENTS_CACHE_TIME = None
    /\ pc = [w \in Workers |-> "idle"]
    /\ favs = [w \in Workers |-> <<>>]
    /\ tlist = [w \in Workers |-> <<>>]
    /\ work = [w \in Workers |-> <<>>]
    /\ tick = [w \in Workers |-> NoTick]
    /\ prev = [w \in Workers |-> NoPrev]
    /\ delivered = [t \in Triples |-> 0]
    /\ markFails = [t \in Triples |-> 0]
    /\ HandlersInit

\* the tournament whose matches the handlers ask for
ViewedTournaments == {2}

Handler(c) ==
    \/ BeginTournaments(c)
    \/ \E raises \in BOOLEAN, k \in 0..NumPages : CompleteTournaments(c, raises, k)
    \/ \E t \in ViewedTournaments : BeginMatches(c, t)
    \/ \E ok \in BOOLEAN : CompleteMatches(c, ok)

NextCache ==
    \/ \E c \in Callers : Handler(c)
    \/ \E minute \in Instants : Pass(minute)

SpecCache == InitCache /\ [][NextCache]_vars

(***************************************************************************)
(* Specification: the job beside a handler that views the live matches     *)
(***************************************************************************)
\* live_matches_callback calls fetch_live_matches_cached(tournament_id)
\* while the job runs on the same event loop
Viewer == 1

NextShared ==
    \/ TickLive(1)
    \/ \E t \in TournamentIds : BeginMatches(Viewer, t)
    \/ \E ok \in BOOLEAN : CompleteMatches(Viewer, ok)

SpecShared == InitLive /\ [][NextShared]_vars

(***************************************************************************)
(* Specification: two workers run the job against the same ledger          *)
(***************************************************************************)
\* the database and the upstream API work; a send_message may fail
TickTwo(w) ==
    \/ LoadFavorites(w, TRUE)
    \/ FetchTournaments(w, FALSE, NumPages)
    \/ FetchMatches(w, TRUE)
    \/ WasNotified(w, TRUE)
    \/ \E ok \in BOOLEAN : SendMessage(w, ok)
    \/ MarkNotified(w, "ok")
    \/ Finish(w, FALSE)

NextTwo == \E w \in Workers : TickTwo(w)

SpecTwo == InitLive /\ [][NextTwo]_vars

(***************************************************************************)
(* Specification: matches are rendered                                     *)
(***************************************************************************)
NextFormat == \E match \in ShownMatches : Render(match)

SpecFormat == Init /\ [][NextFormat]_vars

(***************************************************************************)
(* Specification: fetch_all_tournaments reads a chain of pages             *)
(***************************************************************************)
NextPages ==
    \/ \E n \in 1..MaxPages : \E chain \in Chains(n) : StartPages(chain)
    \/ \E ok \in BOOLEAN : RequestPage(ok)

SpecPages == Init /\ [][NextPages]_vars

(***************************************************************************)
(* Specification: a user searches a player by name                         *)
(***************************************************************************)
NextSearch ==
    \/ \E query \in Queries : StartSearch(query)
    \/ \E answer \in PlayerAnswers : FullQuery(answer)
    \/ \E answer \in PlayerAnswers : FragmentQuery(answer)

SpecSearch == Init /\ [][NextSearch]_vars

(***************************************************************************)
(* Specification: the users press the buttons of the menu                  *)
(***************************************************************************)
\* the candidate lists and answers with players the handlers get
Found == {<<>>} \cup {<<Player(p)>> : p \in {1, 2}} \cup {<<Player(1), Player(2)>>}

NextMenu ==
    \/ \E u \in Users, outcome \in Outcomes, players \in Found : seguir(u, outcome, players)
    \/ \E u \in Users, outcome \in Outcomes, players \in Found :
           capture_player_name(u, outcome, players)
    \/ \E u \in Users, outcome \in Outcomes : choose(u, outcome)
    \/ \E u \in Users, p \in {1, 2}, outcome \in Outcomes : follow(u, p, outcome)
    \/ \E u \in Users, outcome \in Outcomes : rankings(u, outcome)
    \/ \E u \in Users, outcome \in Outcomes : last_results(u, outcome)

SpecMenu == InitLive /\ [][NextMenu]_vars

(***************************************************************************)
(* Specification: a user unfollows while the job runs                      *)
(***************************************************************************)
NextUnfollow ==
    \/ TickTwo(1)
    \/ \E f \in FollowPairs : unfollow(f[1], f[2])

SpecUnfollow == InitLive /\ [][NextUnfollow]_vars

(***************************************************************************)
(* Properties                                                              *)
(***************************************************************************)
Count(seq, x) == Cardinality({i \in DOMAIN seq : seq[i] = x})

\* the favorites table says that the user follows a player of the match
Follows(u, m) ==
    \E f \in favorites : f.user_id = u /\ f.player_name \in
        {p.name : p \in Range(PlayersOf(m).team_1) \cup Range(PlayersOf(m).team_2)}

\* the run of worker w has ended
Done(w) == pc[w] = "done"
\* the run has ended with the exception of the named call
FailedIn(w, cause) == Done(w) /\ tick[w].status = "raised" /\ tick[w].cause = cause
\* the run has returned and none of its calls failed
Clean(w) == Done(w) /\ tick[w].status = "returned" /\ tick[w].cause = ""

\* the triples a run has called send_message for
Attempted(w) ==
    Range(tick[w].sent) \cup
        (IF Done(w) /\ tick[w].cause = "send_message" THEN {Triple(Head(work[w]))} ELSE {})

\* C1, as claimed: whatever fails, every triple (user_id, match_id, status)
\* is successfully delivered at most once.
C1_DeliveredAtMostOnce == \A t \in Triples : delivered[t] <= 1

\* C1, amended: a triple is delivered at most once more than the number of
\* mark_notified calls for it that failed before their INSERT took effect;
\* in particular at most once when no mark_notified call for it failed.
C1_DeliveredOncePerLostMark == \A t \in Triples : delivered[t] <= 1 + markFails[t]

\* a mark_notified failed after a delivery, a later run delivered the triple
\* again and recorded it
C1_Witness ==
    \E t \in Triples : delivered[t] = 2 /\ markFails[t] = 1 /\ Rows(notified, t) = 1

\* C2: every row of the notified ledger was preceded by a successful
\* send_message for its triple; a failed send leaves no row.
C2_RowOnlyAfterSend ==
    /\ \A t \in Triples : Rows(notified, t) > 0 => delivered[t] > 0
    /\ \A w \in Workers : FailedIn(w, "send_message")
            => Rows(notified, Triple(Head(work[w]))) = 0

\* a run ended by a failed send whose triple has no row, next to a row of a
\* delivered triple
C2_Witness ==
    \E w \in Workers :
        /\ FailedIn(w, "send_message")
        /\ Rows(notified, Triple(Head(work[w]))) = 0
        /\ \E t \in Triples : Rows(notified, t) = 1 /\ delivered[t] = 1

\* the matches request of the tournament of match m did not fail in the run,
\* and the tournament is in the list the run got, live or finished
Reported(w, m) ==
    /\ \E i \in DOMAIN tick[w].tournaments :
          /\ tick[w].tournaments[i].id = TournamentOf(m)
          /\ tick[w].tournaments[i].status \in {"live", "finished"}
    /\ ~(FailedIn(w, "matches") /\ Head(tlist[w]).id = TournamentOf(m))

\* C3, as claimed: when the send for a triple failed in a run and at the
\* next run the user still follows a player of the match and the match is
\* still reported with that status and is not stale, the next run calls
\* send_message for the triple again (the ledger lookup for the triple
\* itself succeeding and saying that it is not recorded).
C3_RetriedNextTick ==
    \A w \in Workers : \A t \in prev[w].sendFailed :
        ( /\ Done(w)
          /\ tick[w].status # "escaped"
          /\ Follows(t[1], t[2])
          /\ Match(t[2]).status = t[3]
          /\ Notifiable(Match(t[2]))
          /\ Reported(w, t[2])
          /\ ~(FailedIn(w, "was_notified") /\ Triple(Head(work[w])) = t)
          /\ Rows(notified, t) = 0 )
        => t \in Attempted(w)

\* C4: a mark_notified call that does not fail leaves exactly one row for
\* its triple, however many calls for the triple went before, and no call
\* changes the rows of another triple.
C4_MarkIdempotent ==
    [][\A w \in Workers :
          pc[w] = "mark_notified" /\ pc'[w] # "mark_notified" =>
              LET t == Triple(Head(work[w]))
              IN /\ markFails' = markFails => Rows(notified', t) = 1
                 /\ \A r \in Triples \ {t} : Rows(notified', r) = Rows(notified, r)]_vars

\* a call for a triple whose row existed has returned, and has added nothing
C4_Witness ==
    /\ Done(1) /\ tick[1].status = "returned" /\ tick[1].inserted = {}
    /\ notified # EmptyBag

\* the favorite f and the live match m, the subject of C5
FollowedLive(f, m) ==
    /\ Match(m).status = "live"
    /\ f.player_name \in {p.name : p \in Range(PlayersOf(m).team_1) \cup Range(PlayersOf(m).team_2)}

\* what C5 promises for the triple at the end of the run: one row, and, when
\* the row was not there before the run, exactly one notification
OneNotification(w, t) ==
    /\ Rows(notified, t) = 1
    /\ t \in tick[w].inserted => Count(tick[w].sent, t) = 1

\* the tournament list the run got names every tournament: no page request
\* behind it had failed
CompleteList(w) == {t.id : t \in Range(tick[w].tournaments)} = TournamentIds

\* C5, as claimed: for a favorite (u, n) and a live match m with player n in
\* a tournament that is live or finished, with no ledger row (u, m, "live")
\* and every call succeeding (those behind the tournament list of the run
\* too), one run produces exactly one notification and exactly one ledger
\* row.
C5_LiveMatchNotified ==
    \A w \in Workers : Clean(w) /\ CompleteList(w) =>
        \A f \in Range(favs[w]) : \A m \in MatchIds :
            FollowedLive(f, m) /\ tstatus[TournamentOf(m)] \in {"live", "finished"}
                => OneNotification(w, <<f.user_id, m, "live">>)

\* C5, amended: the same, for a tournament that the tournament list of the
\* run (the result of fetch_all_tournaments_cached, a copy up to 60 minutes
\* old that a failed page request may have cut short) holds as live or
\* finished.
C5_ListedLiveMatchNotified ==
    \A w \in Workers : Clean(w) =>
        \A f \in Range(favs[w]) : \A m \in MatchIds :
            FollowedLive(f, m) /\ Reported(w, m)
                => OneNotification(w, <<f.user_id, m, "live">>)

\* a clean run has notified a follower of a live match and recorded it
C5_Witness ==
    \E w \in Workers : \E f \in Range(favs[w]) : \E m \in MatchIds :
        /\ Clean(w) /\ FollowedLive(f, m) /\ Reported(w, m)
        /\ <<f.user_id, m, "live">> \in tick[w].inserted
        /\ Count(tick[w].sent, <<f.user_id, m, "live">>) = 1

OlderThanOneDay(m) ==
    /\ Match(m).status = "finished"
    /\ Match(m).played_at.kind = "date"
    /\ today - Match(m).played_at.day > 1

\* C7: a finished match whose played_at is more than 1 day before the
\* current date never gets a send_message call or a ledger row: no run
\* calls send_message or mark_notified for it (the upstream data and the
\* clock stay as they are while a run is under way).
C7_NoStaleNotification ==
    \A m \in MatchIds : OlderThanOneDay(m) =>
        \A w \in Workers : \A u \in Users :
            LET t == <<u, m, "finished">>
            IN /\ t \notin Attempted(w)
               /\ t \notin tick[w].inserted
               /\ ~(pc[w] \in {"send_message", "mark_notified"} /\ Triple(Head(work[w])) = t)

\* a run has read the matches of tournament 2 while a user follows a player
\* of its match 1, finished two days ago
C7_Witness ==
    \E w \in Workers :
        /\ OlderThanOneDay(1) /\ Follows(1, 1)
        /\ Done(w) /\ tick[w].status = "returned" /\ favs[w] # <<>>
        /\ Reported(w, 1)

\* C8, as claimed: a failed matches request of one tournament does not end
\* the run: no live or finished tournament after it is left unrequested.
C8_OtherTournamentsFetched ==
    \A w \in Workers : FailedIn(w, "matches") => Tail(tlist[w]) = <<>>

\* the notifications that are due in the rest of the run: the favorites
\* after the head of work[w] and the tournaments after the head of tlist[w]
RestOfRun(w) ==
    Tail(work[w]) \o
        Flatten([i \in DOMAIN Tail(tlist[w]) |->
                    WorkItems(MatchesOf(Tail(tlist[w])[i].id), favs[w])])

\* C9, as claimed: a user who follows a player of a match that stays live is
\* eventually notified, unless the matches request of that tournament or a
\* send to that user fails.
C9_EventuallyNotified ==
    \A u \in Users : \A m \in MatchIds :
        <>( \/ ~(Follows(u, m) /\ Match(m).status = "live")
            \/ \E w \in Workers : FailedIn(w, "matches") /\ Head(tlist[w]).id = TournamentOf(m)
            \/ \E w \in Workers : FailedIn(w, "send_message") /\ Head(work[w]).user_id = u
            \/ delivered[<<u, m, "live">>] > 0 )

\* C10, as claimed: after a failed ledger call the run goes on: at its end
\* no notification of another triple is left that is due and was not sent.
C10_OnlyOneNotificationAbandoned ==
    \A w \in Workers :
        FailedIn(w, "was_notified") \/ FailedIn(w, "mark_notified") =>
            \A i \in DOMAIN RestOfRun(w) :
                \/ Triple(RestOfRun(w)[i]) = Triple(Head(work[w]))
                \/ Rows(notified, Triple(RestOfRun(w)[i])) > 0

\* C11, as claimed: no failure inside a run leaves check_alerts as an
\* exception: no run ends with an exception that its except clause did not
\* catch.
C11_NoFailureEscapes == \A w \in Workers : tick[w].status # "escaped"

\* C20: while the favorites table is empty a run ends right after loading
\* it: it requests nothing, reads and refreshes no cache entry, sends
\* nothing and writes no ledger row.
C20_EmptyFavoritesNoOp ==
    favorites = {} =>
        /\ TOURNAMENTS_CACHE = None /\ TOURNAMENTS_CACHE_TIME = None
        /\ \A t \in TournamentIds : LIVE_MATCHES_CACHE[t] = None
        /\ notified = EmptyBag
        /\ \A t \in Triples : delivered[t] = 0
        /\ \A w \in Workers :
              /\ pc[w] \in {"idle", "done"}
              /\ tick[w].tournaments = <<>>
              /\ tick[w].sent = <<>> /\ tick[w].inserted = {}

\* a run has returned from an empty favorites table while tournament 2 was
\* live and a day had passed
C20_Witness ==
    \E w \in Workers :
        /\ favorites = {} /\ Done(w) /\ tick[w].status = "returned"
        /\ tstatus[2] = "live" /\ clock > 0

(***************************************************************************)
(* The caches                                                              *)
(***************************************************************************)
\* the time an entry of the key is served for
TTL(key) == IF key.fn = "tournaments" THEN CACHE_DURATION ELSE CACHE_DURATION_MATCHES

\* a call for the key that starts now returns the cached value
Hit(key) ==
    IF key.fn = "tournaments" THEN ~TournamentsExpired ELSE MatchesFresh(key.id, clock)

\* the call has issued its upstream call
Refreshing(c) == call[c].pc = "awaiting" \/ call[c].upstream > 0
\* the call has returned from its upstream call
Refreshed(c) == call[c].pc = "returned" /\ call[c].upstream > 0

\* C12, as claimed: of two calls for a key that start less than a TTL apart,
\* the second starting after the first returned from its upstream call,
\* the second issues no upstream call, whether or not the first failed.
C12_OneUpstreamCallPerWindow ==
    \A c \in Callers :
        Refreshing(c) /\ call[c].prior # None =>
            call[c].now - Get(call[c].prior) >= TTL(call[c].key)

\* C13, as claimed: a call that found an expired value for its key and
\* whose upstream call failed returns the value the cache holds.
C13_StaleServedOnFailure ==
    \A c \in Callers :
        Refreshed(c) /\ call[c].failed /\ call[c].found =>
            call[c].result = Get(call[c].before)

\* C14, as claimed: a call whose upstream call failed while the cache held
\* nothing for the key, neither when the call began nor when the upstream
\* call ended, returns an empty list.
C14_EmptyOnFailureWithoutEntry ==
    \A c \in Callers :
        Refreshed(c) /\ call[c].failed /\ ~call[c].found /\ call[c].before = None =>
            call[c].result = <<>>

\* C15, as claimed: a cached value is returned without an upstream call
\* only at an age strictly below the TTL of its key.
C15_ServedOnlyBelowTTL ==
    \A c \in Callers : call[c].cached => call[c].age < TTL(call[c].key)

\* C17: no call issues more than one upstream call, so k callers issue at
\* most k; and when all callers have returned from successful upstream
\* calls for one key that started less than a TTL ago, the cache holds an
\* entry that a call starting now returns without an upstream call.
C17_BoundedRefreshRace ==
    /\ \A c \in Callers : call[c].upstream <= 1
    /\ \A key \in Keys :
          (\A c \in Callers : /\ Refreshed(c) /\ call[c].key = key
                               /\ ~call[c].failed
                               /\ clock - call[c].now < TTL(key))
              => Hit(key)

\* both callers found the key expired at the same minute, both refreshed it
\* successfully, and time has passed since
C17_Witness ==
    \E key \in Keys :
        /\ \A c \in Callers : /\ Refreshed(c) /\ call[c].key = key
                              /\ ~call[c].failed /\ call[c].now = 0
        /\ clock = 1 /\ Hit(key)

(***************************************************************************)
(* The job and the matches cache                                           *)
(***************************************************************************)
\* C16, as claimed: the job requests the matches of a tournament only when
\* the cache holds no value of the tournament younger than the TTL, and
\* after a request of the job that succeeded the cache holds such a value.
C16_TickUsesMatchesCache ==
    [][\A w \in Workers, ok \in BOOLEAN :
          FetchMatches(w, ok) =>
              LET t == Head(tlist[w]).id
              IN /\ ~MatchesFresh(t, clock)
                 /\ ok => /\ LIVE_MATCHES_CACHE'[t] # None
                          /\ clock' - Get(LIVE_MATCHES_CACHE'[t]).time
                                < CACHE_DURATION_MATCHES]_vars

(***************************************************************************)
(* Two workers                                                             *)
(***************************************************************************)
\* C18: while two workers run the job against the same ledger, with every
\* interleaving of their awaits, the ledger holds at most one row for a
\* triple and no run is ended by a mark_notified that found the row.
C18_OneRowUnderTwoWorkers ==
    /\ \A t \in Triples : Rows(notified, t) <= 1
    /\ \A w \in Workers : ~FailedIn(w, "mark_notified")

\* both workers have sent the same triple and each has returned from its
\* mark_notified for it: the second call found the row of the first
C18_Witness ==
    \E t \in Triples :
        /\ \A w \in Workers : Done(w) /\ t \in Range(tick[w].sent)
                               /\ tick[w].status = "returned"
        /\ \E w \in Workers : t \notin tick[w].inserted
        /\ Rows(notified, t) = 1

\* C19, as claimed: while the runs of two workers interleave on the same
\* ledger, no triple is delivered twice.
C19_AtMostOnceUnderTwoWorkers ==
    \A u \in Users, m \in MatchIds, s \in NotifyStatus : delivered[<<u, m, s>>] < 2

(***************************************************************************)
(* What a run sends and writes                                             *)
(***************************************************************************)
\* C21: whenever a run issues a send_message to user u about match m with
\* status s: s is live or finished; m is a match of the tournament the run
\* is at, which its tournament list holds as live or finished; the
\* favorites table holds a row of u with the name of a player of team_1 or
\* team_2 of m; and the ledger holds no row (u, m, s), neither when the send
\* is issued nor when it returns.
C21_SendsOnlyDue ==
    \A w \in Workers : pc[w] \in {"send_message", "mark_notified"} =>
        LET it == Head(work[w])
            t == Head(tlist[w])
        IN /\ it.status \in {"live", "finished"}
           /\ it.status = Match(it.match_id).status
           /\ t.id = TournamentOf(it.match_id)
           /\ t.status \in {"live", "finished"}
           /\ tstatus[t.id] \in {"live", "finished"}
           /\ Follows(it.user_id, it.match_id)
           /\ Rows(notified, Triple(it)) = 0

\* a run is about to send while the ledger holds the row of another
\* notification, which a run has skipped or written
C21_Witness ==
    \E w \in Workers :
        /\ pc[w] = "send_message" /\ notified # EmptyBag
        /\ Rows(notified, Triple(Head(work[w]))) = 0

\* C22: no step of a run, and so no run that is cancelled or fails after
\* any of its steps, takes a row from the ledger or changes the favorites
\* table: the ledger only gains rows.
C22_TickOnlyAppends ==
    [][/\ \A t \in Triples : Rows(notified', t) >= Rows(notified, t)
       /\ <<pc, favs, tlist, work, tick>>' # <<pc, favs, tlist, work, tick>>
              => favorites' = favorites]_vars

\* a run that was ended by an exception has left a row behind, next to the
\* row of an earlier run
C22_Witness ==
    \E w \in Workers :
        /\ Done(w) /\ tick[w].status = "raised" /\ tick[w].inserted # {}
        /\ \E t \in Triples : Rows(notified, t) = 1 /\ t \notin tick[w].inserted

\* C29, as claimed: a finished match whose played_at is missing or does not
\* parse as a date is not skipped: after a run in which no call failed
\* every follower of a player of the match, in a tournament of the list of
\* the run, has the ledger row of the notification.
C29_UnparsedDateNotified ==
    \A w \in Workers : Clean(w) =>
        \A f \in Range(favs[w]) : \A m \in MatchIds :
            ( /\ Match(m).status = "finished"
              /\ ~strptime(Match(m).played_at).ok
              /\ f.player_name \in all_players(Match(m))
              /\ Reported(w, m) )
            => Rows(notified, <<f.user_id, m, "finished">>) = 1

(***************************************************************************)
(* The text of a match                                                     *)
(***************************************************************************)
\* the games of a team in a set as the claim writes them
Games(games) == IF games = None THEN "?" ELSE ToString(Get(games))

\* C27: format_match_score returns the placeholder for a score list that
\* is empty or missing, "T1-T2" for a list of one set, and for a longer
\* list the text of the list without its last set, then " | ", then the
\* "T1-T2" of the last set; [{team_1:6,team_2:1},{team_1:6,team_2:4}]
\* gives "6-1 | 6-4".
C27_ScoreText ==
    shown # None =>
        LET m == Get(shown).match
            text == Get(shown).score
            sets == IF m.score.kind = "list" THEN m.score.sets ELSE <<>>
            n == Len(sets)
            last == Games(sets[n].team_1) \o "-" \o Games(sets[n].team_2)
        IN /\ n = 0 => text = NoResult
           /\ n = 1 => text = last
           /\ n > 1 => text = format_match_score(
                                  [m EXCEPT !.score.sets = SubSeq(sets, 1, n - 1)])
                              \o " | " \o last
           /\ sets = <<[team_1 |-> Some(6), team_2 |-> Some(1)],
                       [team_1 |-> Some(6), team_2 |-> Some(4)]>>
                 => text = "6-1 | 6-4"

\* the match with the sets 6-1 and 6-4 has been rendered
C27_Witness ==
    /\ shown # None
    /\ Get(shown).match.score.sets = <<[team_1 |-> Some(6), team_2 |-> Some(1)],
                                       [team_1 |-> Some(6), team_2 |-> Some(4)]>>
    /\ Get(shown).score = "6-1 | 6-4"

\* C28: the round name is Final, Semifinal, Cuartos or Octavos for the
\* round 1, 2, 4 or 8 and "Ronda n" for every other round number n.
C28_RoundName ==
    shown # None /\ Get(shown).match.round # None =>
        LET n == Get(Get(shown).match.round)
        IN Get(shown).round_name =
              CASE n = 1 -> "Final" [] n = 2 -> "Semifinal"
                [] n = 4 -> "Cuartos" [] n = 8 -> "Octavos"
                [] OTHER -> "Ronda " \o ToString(n)

\* a match of round 3 has been rendered
C28_Witness ==
    /\ shown # None /\ Get(shown).match.round = Some(3)
    /\ Get(shown).round_name = "Ronda 3"

(***************************************************************************)
(* Pagination                                                              *)
(***************************************************************************)
\* C23, as claimed: no page is requested twice, and a call whose requests
\* all succeeded and that has read the last page of the chain, the page
\* without links.next, has returned the items of the pages in page order
\* after one request a page.
C23_AllPagesConcatenated ==
    pages # None =>
        LET p == Get(pages)
            n == Len(p.chain)
        IN /\ \A i, j \in DOMAIN p.requested :
                 i # j => p.requested[i] # p.requested[j]
           /\ ~p.failed /\ Len(p.requested) = n =>
                 /\ p.status = "returned"
                 /\ p.requested = [i \in 1..n |-> i]
                 /\ p.tournaments = Flatten([i \in 1..n |-> page_items(p.chain[i])])

(***************************************************************************)
(* The player search                                                       *)
(***************************************************************************)
\* C30, as claimed: a fragment is requested only after the request with
\* the whole text was answered without players; the fragments requested
\* are the first token, or the first and then the last token when the two
\* differ; and the candidates a fragment search ends with have different
\* ids.
C30_FragmentSearch ==
    search # None =>
        LET q == Get(search)
            first == q.query[1]
            last == q.query[Len(q.query)]
        IN /\ q.stage = "fragments" \/ q.requested # <<>> => q.full_ok
           /\ q.requested \in
                 {<<>>, <<first>>} \cup (IF first # last THEN {<<first, last>>} ELSE {})
           /\ q.requested # <<>> =>
                 \A i, j \in DOMAIN q.players :
                     i # j => q.players[i].id # q.players[j].id

(***************************************************************************)
(* The menu                                                                *)
(***************************************************************************)
\* C24, as claimed: no handler lets a failure of an upstream request escape
C24_NoFailureEscapes == reply # None => Get(reply).kind # "escaped"

\* the handler that ran last has asked the database to save player_id for
\* user_id
Saved(r) == r.handler \in {"seguir", "capture_player_name", "follow"}
            /\ r.kind \in {"following", "already", "db_error"}

\* C25: when a user follows a player the user already follows, through
\* seguir, capture_player_name or the follow button, and the upstream API
\* has answered the handler, the favorites table is left as it was and the
\* answer is 'already following'; and the table has at most one row for a
\* pair (user_id, player_id).
C25_FollowTwice ==
    /\ reply # None /\ Saved(Get(reply))
         /\ existed(Get(reply).before, Get(reply).user_id, Get(reply).player_id)
       => favorites = Get(reply).before /\ Get(reply).kind = "already"
    /\ \A f, g \in favorites :
         f.user_id = g.user_id /\ f.player_id = g.player_id => f = g

\* the follow button was pressed for a player the user follows, and the
\* answer was 'already following'
C25_Witness ==
    /\ reply # None /\ Get(reply).handler = "follow" /\ Get(reply).kind = "already"
    /\ \E f \in favorites : f.user_id = Get(reply).user_id
                             /\ f.player_id = Get(reply).player_id
                             /\ f.player_name # "Desconocido"

\* the notifications of the current run to user u for a match that, of the
\* players u follows, only p plays
SentFor(u, p) ==
    {t \in Range(tick[1].sent) :
        /\ t[1] = u
        /\ PlayerName(p) \in {x.name : x \in Range(PlayersOf(t[2]).team_1)
                                           \cup Range(PlayersOf(t[2]).team_2)}
        /\ \A f \in favorites : f.user_id = u /\ f.player_id # p =>
              f.player_name \notin {x.name : x \in Range(PlayersOf(t[2]).team_1)
                                                 \cup Range(PlayersOf(t[2]).team_2)}}

\* C26, as claimed: once the unfollow button was pressed for (user_id,
\* player_id), the favorites table has no row for the pair, and a run of
\* the job that began later sends the user nothing for that player
C26_UnfollowRemoves ==
    \A x \in unfollowed :
        /\ ~existed(favorites, x[1], x[2])
        /\ ~x[3] => SentFor(x[1], x[2]) = {}

(***************************************************************************)
(* What a refresh leaves in the cache                                      *)
(***************************************************************************)
\* the entries of the two caches, values and times
Entries == <<TOURNAMENTS_CACHE, TOURNAMENTS_CACHE_TIME, LIVE_MATCHES_CACHE>>

\* C31, as claimed: a cached fetch whose refresh has failed, as a whole or
\* at a page request after the first pages were read, returns with the
\* cache holding the values and the times it held before.
C31_FailedRefreshStoresNothing ==
    [][\A c \in Callers :
          call[c].pc = "awaiting" /\ call'[c].pc = "returned" /\ call'[c].failed
              => Entries' = Entries]_vars

\* C32, as claimed: the time stored with the tournament list, and with the
\* matches of a tournament, never decreases, however the refreshes of the
\* callers interleave.
C32_FetchedAtNeverDecreases ==
    [][/\ TOURNAMENTS_CACHE_TIME # None =>
             /\ TOURNAMENTS_CACHE_TIME' # None
             /\ Get(TOURNAMENTS_CACHE_TIME') >= Get(TOURNAMENTS_CACHE_TIME)
       /\ \A t \in TournamentIds :
             LIVE_MATCHES_CACHE[t] # None =>
                 /\ LIVE_MATCHES_CACHE'[t] # None
                 /\ Get(LIVE_MATCHES_CACHE'[t]).time >= Get(LIVE_MATCHES_CACHE[t]).time]_vars

====
